---- MODULE Spec2Model ----
(***************************************************************************)
(* A model of fuse_overlay_rust: a FUSE filesystem that shows the HEAD     *)
(* commit of a git repository and absorbs writes in an in-memory LRU       *)
(* overlay.                                                                *)
(*                                                                         *)
(* Paths are sequences of component names (PathBuf), byte buffers are      *)
(* sequences of small naturals (Vec<u8>, 0 is the padding byte).  The      *)
(* repository at HEAD is immutable and is the fixed tree HeadEntries.      *)
(*                                                                         *)
(* The Filesystem callbacks take &mut self and are delivered one at a time *)
(* by the session loop: each callback is one action.  A prefetch worker is *)
(* a detached thread; each of its calls into the LruCache (one mutex hold) *)
(* is one action, so a callback can run between a worker's contains_key    *)
(* and its insert.                                                         *)
(***************************************************************************)
EXTENDS Integers, Sequences, FiniteSets, TLC

\* ------------------------------------------------------------------ bounds
\* callbacks delivered in one behaviour
MaxOps == 3
\* prefetch worker threads alive at the same time
MaxWorkers == 1
\* deepest parent directory a callback is issued under
MaxDepth == 1
\* the size of a read that asks for a whole file
FullRead == 8
\* entries a readdir reply buffer takes, at most
MaxRoom == 4

\* ------------------------------------------------------- program constants
ROOT_INO == 1
\* 2048 * 1024 * 1024 in the source; TLC's integers end one below it, and no
\* buffer of the model comes near either value
DEFAULT_MAX_CACHE_BYTES == 2147483647
DEFAULT_MAX_CACHE_ENTRIES == 50000

\* --------------------------------------------------------------- the inputs
\* entry names the kernel passes: "a" and "d" exist at HEAD, "x" does not
NameOrder == <<"a", "d", "x">>
Names == {NameOrder[i] : i \in 1..Len(NameOrder)}
\* (offset, data) passed to write
WriteArgs == {<<0, <<7>>>>, <<0, <<8, 9>>>>, <<3, <<7>>>>}
\* (offset, size) passed to read
ReadArgs == {<<0, FullRead>>, <<0, 1>>, <<1, 1>>, <<3, 1>>}
\* (offset, size) of the reads that ask for a whole file
FullReadArgs == {<<0, FullRead>>}
\* sizes passed to setattr
SetSizes == {1, 3}
\* (offset, room) of a readdir: room is the number of entries the reply buffer takes
ReaddirArgs == {<<0, MaxRoom>>, <<1, 1>>}
\* (max_bytes, max_entries) given to LruCache::new: the defaults of
\* GitFsOverlay::new, and tight limits through with_cache_limits
CacheLimits == {<<DEFAULT_MAX_CACHE_BYTES, DEFAULT_MAX_CACHE_ENTRIES>>, <<3, 2>>}

\* ---------------------------------------------------- the object store (HEAD)
\* The tree of the HEAD commit: path -> entry.  kind is the git object type,
\* filemode the mode bits of the tree entry, content the blob's bytes.
HeadEntries ==
  ( <<"a">>      :> [kind |-> "Blob", filemode |-> 33188, content |-> <<1, 2>>] ) @@
  ( <<"d">>      :> [kind |-> "Tree", filemode |-> 16384, content |-> <<>>] ) @@
  ( <<"d", "a">> :> [kind |-> "Blob", filemode |-> 33261, content |-> <<3>>] )

\* A tree object is named by its path at HEAD; the root tree is <<>>.
IsTree(t) == t = <<>> \/ (t \in DOMAIN HeadEntries /\ HeadEntries[t].kind = "Tree")

\* tree.get_name(name): the entry, as a path, or absent
HasName(tree, name) == IsTree(tree) /\ Append(tree, name) \in DOMAIN HeadEntries

\* tree.get_name(c).and_then(to_object).and_then(peel_to_tree)
PeelsToTree(tree, name) ==
  HasName(tree, name) /\ HeadEntries[Append(tree, name)].kind = "Tree"

\* tree.get_name(c).and_then(to_object).and_then(peel_to_blob)
PeelsToBlob(tree, name) ==
  HasName(tree, name) /\ HeadEntries[Append(tree, name)].kind = "Blob"

\* tree.iter(): the names of a tree's entries in git's (sorted) order
TreeIter(tree) ==
  SelectSeq(NameOrder, LAMBDA n : HasName(tree, n))

\* types.rs: i32_to_filemode
i32_to_filemode(mode) ==
  CASE mode = 33261 -> "BlobExecutable"
    [] mode = 33188 -> "Blob"
    [] mode = 16384 -> "Tree"
    [] mode = 40960 -> "Link"
    [] mode = 57344 -> "Commit"
    [] OTHER -> "Blob"

\* types.rs: git_mode_to_perm (octal 644 = 420, 755 = 493)
git_mode_to_perm(mode) ==
  CASE mode = "Blob" -> 420
    [] mode = "BlobExecutable" -> 493
    [] mode = "Tree" -> 493
    [] OTHER -> 420

\* ------------------------------------------------------------- small helpers
\* Option<T>: <<>> is None, <<v>> is Some(v)
None == <<>>
Some(v) == <<v>>
IsSome(o) == o # <<>>
Unwrap(o) == o[1]

\* Path::parent (None for the empty path) and Path::file_name
HasParent(p) == p # <<>>
Parent(p) == SubSeq(p, 1, Len(p) - 1)
FileName(p) == p[Len(p)]

\* the function f without key k / with k mapped to v (HashMap, DashMap)
MapRemove(f, k) == [x \in (DOMAIN f) \ {k} |-> f[x]]
MapInsert(f, k, v) == [x \in (DOMAIN f) \cup {k} |-> IF x = k THEN v ELSE f[x]]

\* VecDeque::remove(position of p), when p is in the deque
SeqRemove(s, p) == SelectSeq(s, LAMBDA q : q # p)

\* Vec::resize(n, 0)
Resize(v, n) ==
  [i \in 1..n |-> IF i <= Len(v) THEN v[i] ELSE 0]

\* &data[off..end]: the bytes at 0-based positions off..end-1
Slice(v, off, end) == SubSeq(v, off + 1, end)

Min(a, b) == IF a < b THEN a ELSE b

\* ------------------------------------------------------------------ LruCache
\* LruCacheInner, as a record: cache, access_order (front = index 1),
\* current_size, max_size, max_entries.  Every operation below is one hold
\* of the mutex.

\* LruCache::new
LruNew(max_size, max_entries) ==
  [cache |-> <<>>, access_order |-> <<>>, current_size |-> 0,
   max_size |-> max_size, max_entries |-> max_entries]

\* LruCache::contains_key
LruContains(l, path) == path \in DOMAIN l.cache

\* LruCache::get: the value, and on a hit the key moves to the front.
\* LruGetValue is the returned Option, LruGet the cache afterwards.
LruGetValue(l, path) ==
  IF path \in DOMAIN l.cache THEN Some(l.cache[path]) ELSE None

\* get that pushes the key to the front without taking it out of its old place
LruGetNoRemove(l, path) ==
  IF path \in DOMAIN l.cache
  THEN [l EXCEPT !.access_order = <<path>> \o l.access_order]
  ELSE l

LruGet(l, path) ==
  IF path \in DOMAIN l.cache
  THEN [l EXCEPT !.access_order = <<path>> \o SeqRemove(l.access_order, path)]
  ELSE l

\* dropping an entry without subtracting its length
LruDropOldKeepSize(l, path) ==
  IF path \in DOMAIN l.cache
  THEN [l EXCEPT !.cache = MapRemove(l.cache, path),
                 !.access_order = SeqRemove(l.access_order, path)]
  ELSE l

\* the first part of insert: "Remove old entry if exists"
LruDropOld(l, path) ==
  IF path \in DOMAIN l.cache
  THEN [l EXCEPT !.current_size = l.current_size - Len(l.cache[path]),
                 !.cache = MapRemove(l.cache, path),
                 !.access_order = SeqRemove(l.access_order, path)]
  ELSE l

\* an eviction loop that pops the front of access_order
RECURSIVE LruEvictFront(_, _)
LruEvictFront(l, data_size) ==
  IF (l.current_size + data_size > l.max_size
        \/ Cardinality(DOMAIN l.cache) >= l.max_entries)
     /\ DOMAIN l.cache # {}
     /\ l.access_order # <<>>
  THEN LET old_path == l.access_order[1]
           popped == [l EXCEPT !.access_order = Tail(l.access_order)]
       IN LruEvictFront(
            IF old_path \in DOMAIN popped.cache
            THEN [popped EXCEPT
                    !.current_size = popped.current_size - Len(popped.cache[old_path]),
                    !.cache = MapRemove(popped.cache, old_path)]
            ELSE popped,
            data_size)
  ELSE l

\* the eviction loop of insert: "Evict until we have space".  The loop pops
\* the back of access_order and removes that key from the map.  (With an
\* empty access_order and a non-empty map the loop would not change anything;
\* the model stops there.)
RECURSIVE LruEvict(_, _)
LruEvict(l, data_size) ==
  IF (l.current_size + data_size > l.max_size
        \/ Cardinality(DOMAIN l.cache) >= l.max_entries)
     /\ DOMAIN l.cache # {}
     /\ l.access_order # <<>>
  THEN LET old_path == l.access_order[Len(l.access_order)]
           popped == [l EXCEPT !.access_order =
                          SubSeq(l.access_order, 1, Len(l.access_order) - 1)]
       IN LruEvict(
            IF old_path \in DOMAIN popped.cache
            THEN [popped EXCEPT
                    !.current_size = popped.current_size - Len(popped.cache[old_path]),
                    !.cache = MapRemove(popped.cache, old_path)]
            ELSE popped,
            data_size)
  ELSE l

\* the last part of insert: "Insert new entry"
LruPut(l, path, data) ==
  [l EXCEPT !.cache = MapInsert(l.cache, path, data),
            !.access_order = <<path>> \o l.access_order,
            !.current_size = l.current_size + Len(data)]

\* LruCache::insert
LruInsert(l, path, data) ==
  LruPut(LruEvict(LruDropOld(l, path), Len(data)), path, data)

\* LruCache::remove: LruRemoveValue is the returned Option
LruRemoveValue(l, path) ==
  IF path \in DOMAIN l.cache THEN Some(l.cache[path]) ELSE None

LruRemove(l, path) == LruDropOld(l, path)

\* LruCache::clear
LruClear(l) ==
  [l EXCEPT !.cache = <<>>, !.access_order = <<>>, !.current_size = 0]

\* ----------------------------------------------------------------- NodeCache
\* NodeCache, as a record: nodes (ino -> Node), ino_cache (path -> ino, the
\* allocation cache), path_to_ino (path -> ino), next_ino.
\* Node: [ino, kind, size, path, git_mode]; git_mode "None" is Option::None.

MkNode(ino, kind, size, path, git_mode) ==
  [ino |-> ino, kind |-> kind, size |-> size, path |-> path, git_mode |-> git_mode]

\* NodeCache::new
NodeCacheNew ==
  [nodes |-> (ROOT_INO :> MkNode(ROOT_INO, "Directory", 0, <<>>, "Tree")),
   ino_cache |-> <<>>,
   path_to_ino |-> (<<>> :> ROOT_INO),
   next_ino |-> ROOT_INO + 1]

\* alloc_ino that does not consult the allocation cache
AllocInoValueFresh(nc, path) == nc.next_ino

\* NodeCache::alloc_ino: AllocInoValue is the returned inode, AllocIno the
\* cache afterwards
AllocInoValue(nc, path) ==
  IF path \in DOMAIN nc.ino_cache THEN nc.ino_cache[path] ELSE nc.next_ino

\* alloc_ino that records the path without advancing next_ino
AllocInoNoBump(nc, path) ==
  IF path \in DOMAIN nc.ino_cache THEN nc
  ELSE [nc EXCEPT !.ino_cache = MapInsert(nc.ino_cache, path, nc.next_ino)]

AllocIno(nc, path) ==
  IF path \in DOMAIN nc.ino_cache THEN nc
  ELSE [nc EXCEPT !.next_ino = nc.next_ino + 1,
                  !.ino_cache = MapInsert(nc.ino_cache, path, nc.next_ino)]

\* NodeCache::get_node
GetNode(nc, ino) == IF ino \in DOMAIN nc.nodes THEN Some(nc.nodes[ino]) ELSE None

\* NodeCache::insert_node
InsertNode(nc, ino, node) ==
  [nc EXCEPT !.nodes = MapInsert(nc.nodes, ino, node),
             !.path_to_ino = MapInsert(nc.path_to_ino, node.path, ino)]

\* NodeCache::remove_node: RemoveNodeValue is the returned Option<u64>
RemoveNodeValue(nc, path) ==
  IF path \in DOMAIN nc.path_to_ino THEN Some(nc.path_to_ino[path]) ELSE None

\* remove_node that also forgets the inode allocated for the path
RemoveNodeForgetIno(nc, path) ==
  IF path \in DOMAIN nc.path_to_ino
  THEN [nc EXCEPT !.path_to_ino = MapRemove(nc.path_to_ino, path),
                  !.nodes = MapRemove(nc.nodes, nc.path_to_ino[path]),
                  !.ino_cache = IF path \in DOMAIN nc.ino_cache
                                THEN MapRemove(nc.ino_cache, path) ELSE nc.ino_cache]
  ELSE nc

\* remove_node that drops the path from the index and leaves the node
RemoveNodeKeepNode(nc, path) ==
  IF path \in DOMAIN nc.path_to_ino
  THEN [nc EXCEPT !.path_to_ino = MapRemove(nc.path_to_ino, path)]
  ELSE nc

\* remove_node applied to the parent of the path
RemoveNodeOfParent(nc, path) ==
  IF HasParent(path) /\ Parent(path) \in DOMAIN nc.path_to_ino
  THEN [nc EXCEPT !.path_to_ino = MapRemove(nc.path_to_ino, Parent(path)),
                  !.nodes = MapRemove(nc.nodes, nc.path_to_ino[Parent(path)])]
  ELSE nc

RemoveNode(nc, path) ==
  IF path \in DOMAIN nc.path_to_ino
  THEN [nc EXCEPT !.path_to_ino = MapRemove(nc.path_to_ino, path),
                  !.nodes = MapRemove(nc.nodes, nc.path_to_ino[path])]
  ELSE nc

\* NodeCache::get_ino_by_path
GetInoByPath(nc, path) ==
  IF path \in DOMAIN nc.path_to_ino THEN Some(nc.path_to_ino[path]) ELSE None

\* NodeCache::node_to_attr: the fields that are not constants or clock reads
NodeToAttr(node) ==
  [ino |-> node.ino, size |-> node.size, blocks |-> (node.size + 511) \div 512,
   kind |-> node.kind,
   perm |-> IF node.git_mode # "None" THEN git_mode_to_perm(node.git_mode)
            ELSE IF node.kind = "Directory" THEN 493 ELSE 420]


\* The "Git traversal" loop of lookup_path: one iteration per component of
\* rest.  tree is curr_tree, curr_path and last_node as in the code.  A
\* component that is missing (or neither tree nor blob) returns None, a blob
\* returns its node at once; the nodes recorded on the way stay recorded.
RECURSIVE GitTraversal(_, _, _, _, _)
GitTraversal(nc, tree, curr_path, rest, last_node) ==
  IF rest = <<>> THEN [nc |-> nc, node |-> last_node]
  ELSE
    LET comp == Head(rest)
        path == Append(curr_path, comp)
    IN IF ~HasName(tree, comp) THEN [nc |-> nc, node |-> None]
       ELSE
         LET entry == HeadEntries[path]
         IN IF entry.kind \notin {"Tree", "Blob"} THEN [nc |-> nc, node |-> None]
            ELSE
              LET kind == IF entry.kind = "Tree" THEN "Directory" ELSE "RegularFile"
                  size == IF kind = "RegularFile" THEN Len(entry.content) ELSE 0
                  node == MkNode(AllocInoValue(nc, path), kind, size, path,
                                 i32_to_filemode(entry.filemode))
                  nc1 == AllocIno(nc, path)
                  nc2 == [nc1 EXCEPT
                            !.nodes = MapInsert(nc1.nodes, node.ino, node),
                            !.path_to_ino = MapInsert(nc1.path_to_ino, path, node.ino)]
              IN IF kind = "Directory"
                 THEN GitTraversal(nc2, path, path, Tail(rest), Some(node))
                 ELSE [nc |-> nc2, node |-> Some(node)]

\* lookup_path with the overlay step ahead of the path-index step
LookupPathOverlayFirst(nc, ov, path) ==
  IF IsSome(LruGetValue(ov, path))
  THEN LET data == Unwrap(LruGetValue(ov, path))
           ino == AllocInoValue(nc, path)
           node == MkNode(ino, "RegularFile", Len(data), path, "None")
           nc1 == AllocIno(nc, path)
       IN [nc |-> [nc1 EXCEPT !.nodes = MapInsert(nc1.nodes, ino, node),
                              !.path_to_ino = MapInsert(nc1.path_to_ino, path, ino)],
           ov |-> LruGet(ov, path),
           node |-> Some(node)]
  ELSE IF path \in DOMAIN nc.path_to_ino
  THEN [nc |-> nc, ov |-> ov, node |-> GetNode(nc, nc.path_to_ino[path])]
  ELSE LET r == GitTraversal(nc, <<>>, <<>>, path, None)
       IN [nc |-> r.nc, ov |-> ov, node |-> r.node]

\* NodeCache::lookup_path: the cascade path index -> overlay -> HEAD.
\* The result is [nc, ov, node]: the node cache and the overlay afterwards
\* (overlay.get promotes the key) and the returned Option<Node>.
LookupPath(nc, ov, path) ==
  IF path \in DOMAIN nc.path_to_ino
  THEN [nc |-> nc, ov |-> ov, node |-> GetNode(nc, nc.path_to_ino[path])]
  ELSE IF IsSome(LruGetValue(ov, path))
  THEN LET data == Unwrap(LruGetValue(ov, path))
           ino == AllocInoValue(nc, path)
           node == MkNode(ino, "RegularFile", Len(data), path, "None")
           nc1 == AllocIno(nc, path)
       IN [nc |-> [nc1 EXCEPT !.nodes = MapInsert(nc1.nodes, ino, node),
                              !.path_to_ino = MapInsert(nc1.path_to_ino, path, ino)],
           ov |-> LruGet(ov, path),
           node |-> Some(node)]
  ELSE LET r == GitTraversal(nc, <<>>, <<>>, path, None)
       IN [nc |-> r.nc, ov |-> ov, node |-> r.node]

\* ---------------------------------------------------------------- file_ops
\* The walk of read_file along node.path.parent(): the tree reached, or
\* None when a component is missing or is not a tree (ENOENT).
RECURSIVE ReadWalk(_, _)
ReadWalk(tree, comps) ==
  IF comps = <<>> THEN Some(tree)
  ELSE IF PeelsToTree(tree, Head(comps))
       THEN ReadWalk(Append(tree, Head(comps)), Tail(comps))
       ELSE None

\* read_file: the reply.  [err, data]: err is "OK", an errno name, or
\* "PANIC" when the slice &data[off..end] has off > end.
Reply(err, data) == [err |-> err, data |-> data]

ReadSlice(data, offset, size) ==
  LET end == Min(offset + size, Len(data))
  IN IF offset > end THEN Reply("PANIC", <<>>)
     ELSE Reply("OK", Slice(data, offset, end))

\* the blob read_file fetches for path when the overlay misses: Some(bytes),
\* or None (the reply is then ENOENT)
ReadBlob(path) ==
  LET t == IF HasParent(path) THEN ReadWalk(<<>>, Parent(path)) ELSE Some(<<>>)
  IN IF ~IsSome(t) THEN None
     ELSE IF ~HasParent(path) THEN None
     ELSE IF PeelsToBlob(Unwrap(t), FileName(path))
          THEN Some(HeadEntries[Append(Unwrap(t), FileName(path))].content)
          ELSE None

ReadFileReply(ov, path, offset, size) ==
  IF IsSome(LruGetValue(ov, path))
  THEN ReadSlice(Unwrap(LruGetValue(ov, path)), offset, size)
  ELSE IF HasParent(path) /\ ~IsSome(ReadWalk(<<>>, Parent(path)))
  THEN Reply("ENOENT", <<>>)
  ELSE IF ~HasParent(path) THEN Reply("EINVAL", <<>>)
  ELSE IF ~IsSome(ReadBlob(path)) THEN Reply("ENOENT", <<>>)
  ELSE ReadSlice(Unwrap(ReadBlob(path)), offset, size)

\* the metrics condition without its test of the requested size
ReadIsOnDemandAnySize(ov, path, offset, size) ==
  /\ ~IsSome(LruGetValue(ov, path))
  /\ IsSome(ReadBlob(path))
  /\ offset = 0

\* whether read_file counts the read as an on-demand fetch
ReadIsOnDemand(ov, path, offset, size) ==
  /\ ~IsSome(LruGetValue(ov, path))
  /\ IsSome(ReadBlob(path))
  /\ offset = 0
  /\ size >= Len(Unwrap(ReadBlob(path)))

\* The walk of write_file along path.parent(): a component that does not
\* peel to a tree is skipped and curr_tree stays where it is.
RECURSIVE SeedWalk(_, _)
SeedWalk(tree, comps) ==
  IF comps = <<>> THEN tree
  ELSE IF PeelsToTree(tree, Head(comps))
       THEN SeedWalk(Append(tree, Head(comps)), Tail(comps))
       ELSE SeedWalk(tree, Tail(comps))

\* the blob write_file seeds the overlay with: Some(bytes) or None
SeedBlob(path) ==
  IF ~HasParent(path) THEN None
  ELSE LET t == SeedWalk(<<>>, Parent(path))
       IN IF PeelsToBlob(t, FileName(path))
          THEN Some(HeadEntries[Append(t, FileName(path))].content)
          ELSE None

\* write_file without the seeding step
WriteSeedNone(ov, path, offset) == ov

\* "Prefetch original content from git if not in overlay yet"
WriteSeed(ov, path, offset) ==
  IF ~LruContains(ov, path) /\ offset = 0 /\ IsSome(SeedBlob(path))
  THEN LruInsert(ov, path, Unwrap(SeedBlob(path)))
  ELSE ov

\* the resize without the copy_from_slice
PatchNoCopy(content, offset, data) ==
  IF Len(content) < offset + Len(data) THEN Resize(content, offset + Len(data)) ELSE content

\* content after resize and copy_from_slice
Patch(content, offset, data) ==
  LET grown == IF Len(content) < offset + Len(data)
               THEN Resize(content, offset + Len(data)) ELSE content
  IN [i \in 1..Len(grown) |->
        IF i > offset /\ i <= offset + Len(data) THEN data[i - offset] ELSE grown[i]]

\* write_file for a node that exists at path: the overlay afterwards
WriteFile(ov, path, offset, data) ==
  LET seeded == WriteSeed(ov, path, offset)
      content == IF IsSome(LruGetValue(seeded, path))
                 THEN Unwrap(LruGetValue(seeded, path)) ELSE <<>>
  IN LruInsert(LruGet(seeded, path), path, Patch(content, offset, data))


\* ----------------------------------------------------------------- dir_ops
\* whether every component of path peels to a tree at HEAD ("valid")
DirValid(path) == IsSome(ReadWalk(<<>>, path))

\* the ".." entry of read_directory
ParentIno(nc, path) ==
  IF path = <<>> THEN ROOT_INO
  ELSE IF IsSome(GetInoByPath(nc, Parent(path)))
       THEN Unwrap(GetInoByPath(nc, Parent(path))) ELSE ROOT_INO

\* "Git entries": one iteration per tree entry in names; acc is the entries
\* vector (ino, kind, name) so far.  The result is [nc, entries].
RECURSIVE GitEntries(_, _, _, _)
GitEntries(nc, dir, names, acc) ==
  IF names = <<>> THEN [nc |-> nc, entries |-> acc]
  ELSE
    LET name == Head(names)
        child_path == Append(dir, name)
        e == HeadEntries[child_path]
    IN IF e.kind \notin {"Tree", "Blob"} THEN GitEntries(nc, dir, Tail(names), acc)
       ELSE
         LET kind == IF e.kind = "Tree" THEN "Directory" ELSE "RegularFile"
         IN IF IsSome(GetInoByPath(nc, child_path))
            THEN GitEntries(nc, dir, Tail(names),
                            Append(acc, <<Unwrap(GetInoByPath(nc, child_path)), kind, name>>))
            ELSE
              LET ino == AllocInoValue(nc, child_path)
                  size == IF kind = "RegularFile" THEN Len(e.content) ELSE 0
                  child_node == MkNode(ino, kind, size, child_path,
                                       i32_to_filemode(e.filemode))
              IN GitEntries(InsertNode(AllocIno(nc, child_path), ino, child_node),
                            dir, Tail(names), Append(acc, <<ino, kind, name>>))

\* read_directory without the check that skips an overlay path whose name the
\* entries vector already holds
RECURSIVE OverlayEntriesNoSkip(_, _, _, _)
OverlayEntriesNoSkip(nc, ov, paths, acc) ==
  IF paths = <<>> THEN [nc |-> nc, entries |-> acc]
  ELSE
    LET p == Head(paths)
        name == FileName(p)
        ino == IF IsSome(GetInoByPath(nc, p))
               THEN Unwrap(GetInoByPath(nc, p)) ELSE AllocInoValue(nc, p)
        kind == IF IsSome(GetNode(nc, ino)) THEN Unwrap(GetNode(nc, ino)).kind
                ELSE "RegularFile"
        nc1 == IF IsSome(GetInoByPath(nc, p)) THEN nc ELSE AllocIno(nc, p)
        nc2 == IF IsSome(GetNode(nc1, ino)) THEN nc1
               ELSE InsertNode(nc1, ino,
                               MkNode(ino, "RegularFile", Len(ov.cache[p]), p, "None"))
    IN OverlayEntriesNoSkip(nc2, ov, Tail(paths), Append(acc, <<ino, kind, name>>))

\* "Overlay entries": one iteration per collected overlay path in paths (the
\* order is the HashMap's iteration order).  The result is [nc, entries].
RECURSIVE OverlayEntries(_, _, _, _)
OverlayEntries(nc, ov, paths, acc) ==
  IF paths = <<>> THEN [nc |-> nc, entries |-> acc]
  ELSE
    LET p == Head(paths)
        data == ov.cache[p]
        name == FileName(p)
    IN IF \E i \in 1..Len(acc) : acc[i][3] = name
       THEN OverlayEntries(nc, ov, Tail(paths), acc)
       ELSE IF IsSome(GetInoByPath(nc, p))
       THEN LET ino == Unwrap(GetInoByPath(nc, p))
            IN IF IsSome(GetNode(nc, ino))
               THEN OverlayEntries(nc, ov, Tail(paths),
                                   Append(acc, <<ino, Unwrap(GetNode(nc, ino)).kind, name>>))
               ELSE OverlayEntries(
                      InsertNode(nc, ino, MkNode(ino, "RegularFile", Len(data), p, "None")),
                      ov, Tail(paths), Append(acc, <<ino, "RegularFile", name>>))
       ELSE LET ino == AllocInoValue(nc, p)
            IN OverlayEntries(
                 InsertNode(AllocIno(nc, p), ino,
                            MkNode(ino, "RegularFile", Len(data), p, "None")),
                 ov, Tail(paths), Append(acc, <<ino, "RegularFile", name>>))

\* the overlay paths read_directory collects for the directory dir
OverlayChildren(ov, dir) ==
  {p \in DOMAIN ov.cache : HasParent(p) /\ Parent(p) = dir}

\* every order in which a set can be iterated
Orders(S) ==
  {q \in [1..Cardinality(S) -> S] : \A i, j \in 1..Cardinality(S) : q[i] = q[j] => i = j}

\* read_directory for a Directory node: the entries vector built, and the
\* node cache afterwards; order is the order overlay.iter visits the children
ReadDirectory(nc, ov, node, order) ==
  LET base == << <<node.ino, "Directory", ".">>,
                 <<ParentIno(nc, node.path), "Directory", "..">> >>
      git == IF DirValid(node.path)
             THEN GitEntries(nc, node.path, TreeIter(node.path), base)
             ELSE [nc |-> nc, entries |-> base]
  IN OverlayEntries(git.nc, ov, order, git.entries)

\* the reply.add loop handing out the 0-based index as the cookie
EmitZeroBased(entries, offset, room) ==
  [k \in 1..Min(room, IF Len(entries) > offset THEN Len(entries) - offset ELSE 0) |->
     <<entries[offset + k][1], offset + k - 1, entries[offset + k][2],
       entries[offset + k][3]>>]

\* "Add entries starting from offset": what reply.add accepted, as
\* (ino, cookie, kind, name); room is the number of entries the reply
\* buffer takes before reply.add reports it full
Emit(entries, offset, room) ==
  [k \in 1..Min(room, IF Len(entries) > offset THEN Len(entries) - offset ELSE 0) |->
     <<entries[offset + k][1], offset + k, entries[offset + k][2], entries[offset + k][3]>>]

\* ----------------------------------------------------------------- prefetch
\* A worker thread: st is "idle" (no thread) or "run"; dir is dir_path; todo
\* the blob entries of the tree not yet visited; pend is Some(name) between
\* the contains_key that found the child missing and the insert.
IdleWorker == [st |-> "idle", dir |-> <<>>, todo |-> <<>>, pend |-> None]

\* the entries the loop of prefetch_directory does not skip as non-blobs;
\* empty when the navigation to dir_path fails and the thread returns
BlobChildren(dir) ==
  IF DirValid(dir)
  THEN SelectSeq(TreeIter(dir), LAMBDA n : HeadEntries[Append(dir, n)].kind = "Blob")
  ELSE <<>>

\* GitFsOverlay::prefetch_directory: thread::spawn.  A thread with nothing to
\* visit ends at once and is not kept.
CanSpawn(ws, dir) ==
  BlobChildren(dir) = <<>> \/ \E w \in DOMAIN ws : ws[w].st = "idle"

Spawn(ws, dir) ==
  IF BlobChildren(dir) = <<>> THEN ws
  ELSE LET w == CHOOSE w \in DOMAIN ws :
                  ws[w].st = "idle" /\ \A v \in DOMAIN ws : ws[v].st = "idle" => w <= v
       IN [ws EXCEPT ![w] = [st |-> "run", dir |-> dir,
                             todo |-> BlobChildren(dir), pend |-> None]]


\* --------------------------------------------------------------- the state
VARIABLES
  node_cache,   \* GitFsOverlay.node_cache
  overlay,      \* GitFsOverlay.overlay, shared with the workers
  metrics,      \* GitFsOverlay.metrics
  workers,      \* the prefetch threads
  alive,        \* FALSE once a callback has panicked
  nops,         \* callbacks delivered so far
  last,         \* history: the step taken last, its arguments and its reply
  ops_on,       \* history: path -> the callbacks that have targeted it
  expect        \* history: path -> the caller's writes applied in order, and their number

vars == <<node_cache, overlay, metrics, workers, alive, nops, last, ops_on, expect>>

NoAttr == <<>>
NoReply == Reply("OK", <<>>)

\* what a read of the whole file at path replies in the state (ov)
Readable(ov, path) == ReadFileReply(ov, path, 0, FullRead)

\* the kind of the node recorded for path, "None" without one
KindAt(nc, path) ==
  IF path \in DOMAIN nc.path_to_ino /\ nc.path_to_ino[path] \in DOMAIN nc.nodes
  THEN nc.nodes[nc.path_to_ino[path]].kind ELSE "None"

\* The record kept in last: the step, its arguments (ino, path, path2, offset,
\* size, data), its reply (err, out, attr, entries), and what held of path
\* just before the step: before (what a whole read replied), held (the overlay
\* had the path) and kind (of its node).
Step(op, ino, path, path2, offset, size, data, err, out, attr, entries) ==
  [op |-> op, ino |-> ino, path |-> path, path2 |-> path2, offset |-> offset,
   size |-> size, data |-> data, err |-> err, out |-> out, attr |-> attr,
   entries |-> entries, before |-> Readable(overlay, path),
   held |-> LruContains(overlay, path), kind |-> KindAt(node_cache, path)]

\* history bookkeeping
Targeted(h, path, op) ==
  MapInsert(h, path, (IF path \in DOMAIN h THEN h[path] ELSE {}) \cup {op})

Forget(e, path) == IF path \in DOMAIN e THEN MapRemove(e, path) ELSE e

Init ==
  /\ node_cache = NodeCacheNew
  /\ \E lim \in CacheLimits : overlay = LruNew(lim[1], lim[2])
  /\ metrics = [prefetch_count |-> 0, prefetch_bytes |-> 0,
                on_demand_count |-> 0, on_demand_bytes |-> 0]
  /\ workers = [w \in 1..MaxWorkers |-> IdleWorker]
  /\ alive = TRUE
  /\ nops = 0
  /\ last = Step("init", 0, <<>>, <<>>, 0, 0, <<>>, "OK", <<>>, NoAttr, <<>>)
  /\ ops_on = <<>>
  /\ expect = <<>>

\* a callback can be delivered
Ready == alive /\ nops < MaxOps

\* the inode numbers the kernel can hold: every one handed out so far
KnownInos == 1..(node_cache.next_ino - 1)

\* The kernel's side of the protocol.  It issues a callback under a parent
\* it knows as a directory, reads and writes inodes it knows as regular
\* files, and may still hold an inode whose node the filesystem has removed.
DirInos ==
  {i \in DOMAIN node_cache.nodes :
     node_cache.nodes[i].kind = "Directory" /\ Len(node_cache.nodes[i].path) <= MaxDepth}

FileInos == {i \in DOMAIN node_cache.nodes : node_cache.nodes[i].kind = "RegularFile"}

StaleInos == KnownInos \ DOMAIN node_cache.nodes

\* the path a callback with (parent, name) is about
ChildPath(parent, name) == Append(node_cache.nodes[parent].path, name)

\* Before create and mkdir the kernel looks the name up and goes on only when
\* the lookup replied ENOENT.
Resolves(path) == IsSome(LookupPath(node_cache, overlay, path).node)

\* unlink, rmdir and rename reach the filesystem for an entry the kernel
\* knows: one that has a node
HasNode(path, kinds) ==
  /\ path \in DOMAIN node_cache.path_to_ino
  /\ node_cache.path_to_ino[path] \in DOMAIN node_cache.nodes
  /\ node_cache.nodes[node_cache.path_to_ino[path]].kind \in kinds

\* ------------------------------------------------------------- the callbacks
\* GitFsOverlay::lookup
Lookup(parent, name) ==
  /\ Ready
  /\ nops' = nops + 1
  /\ IF ~IsSome(GetNode(node_cache, parent))
     THEN /\ last' = Step("lookup", parent, <<>>, <<>>, 0, 0, <<>>, "ENOENT", <<>>,
                          NoAttr, <<>>)
          /\ UNCHANGED <<node_cache, overlay, workers>>
     ELSE LET path == Append(node_cache.nodes[parent].path, name)
              r == LookupPath(node_cache, overlay, path)
          IN /\ node_cache' = r.nc
             /\ overlay' = r.ov
             /\ IF IsSome(r.node)
                THEN /\ IF Unwrap(r.node).kind = "Directory"
                        THEN /\ CanSpawn(workers, Unwrap(r.node).path)
                             /\ workers' = Spawn(workers, Unwrap(r.node).path)
                        ELSE UNCHANGED workers
                     /\ last' = Step("lookup", parent, path, <<>>, 0, 0, <<>>, "OK", <<>>,
                                     Some(NodeToAttr(Unwrap(r.node))), <<>>)
                ELSE /\ UNCHANGED workers
                     /\ last' = Step("lookup", parent, path, <<>>, 0, 0, <<>>, "ENOENT",
                                     <<>>, NoAttr, <<>>)
  /\ UNCHANGED <<metrics, alive, ops_on, expect>>

\* GitFsOverlay::getattr
Getattr(ino) ==
  /\ Ready
  /\ nops' = nops + 1
  /\ last' = IF IsSome(GetNode(node_cache, ino))
             THEN Step("getattr", ino, node_cache.nodes[ino].path, <<>>, 0, 0, <<>>, "OK",
                       <<>>, Some(NodeToAttr(node_cache.nodes[ino])), <<>>)
             ELSE Step("getattr", ino, <<>>, <<>>, 0, 0, <<>>, "ENOENT", <<>>, NoAttr,
                       <<>>)
  /\ UNCHANGED <<node_cache, overlay, metrics, workers, alive, ops_on, expect>>

\* GitFsOverlay::readdir with dir_ops::read_directory
Readdir(ino, offset, room) ==
  /\ Ready
  /\ nops' = nops + 1
  /\ IF ~IsSome(GetNode(node_cache, ino))
     THEN /\ last' = Step("readdir", ino, <<>>, <<>>, offset, room, <<>>, "ENOENT", <<>>,
                          NoAttr, <<>>)
          /\ UNCHANGED <<node_cache, workers>>
     ELSE LET node == node_cache.nodes[ino]
          IN /\ CanSpawn(workers, node.path)
             /\ workers' = Spawn(workers, node.path)
             /\ IF node.kind # "Directory"
                THEN /\ last' = Step("readdir", ino, node.path, <<>>, offset, room, <<>>,
                                     "ENOTDIR", <<>>, NoAttr, <<>>)
                     /\ UNCHANGED node_cache
                ELSE \E order \in Orders(OverlayChildren(overlay, node.path)) :
                       LET r == ReadDirectory(node_cache, overlay, node, order)
                       IN /\ node_cache' = r.nc
                          /\ last' = Step("readdir", ino, node.path, <<>>, offset, room,
                                          <<>>, "OK", Emit(r.entries, offset, room),
                                          NoAttr, r.entries)
  /\ UNCHANGED <<overlay, metrics, alive, ops_on, expect>>

\* GitFsOverlay::read with file_ops::read_file
Read(ino, offset, size) ==
  /\ Ready
  /\ nops' = nops + 1
  /\ IF ~IsSome(GetNode(node_cache, ino))
     THEN /\ last' = Step("read", ino, <<>>, <<>>, offset, size, <<>>, "ENOENT", <<>>,
                          NoAttr, <<>>)
          /\ UNCHANGED <<overlay, metrics, alive, ops_on>>
     ELSE LET path == node_cache.nodes[ino].path
              r == ReadFileReply(overlay, path, offset, size)
          IN /\ overlay' = LruGet(overlay, path)
             /\ metrics' = IF r.err = "OK" /\ ReadIsOnDemand(overlay, path, offset, size)
                           THEN [metrics EXCEPT
                                   !.on_demand_count = @ + 1,
                                   !.on_demand_bytes = @ + Len(Unwrap(ReadBlob(path)))]
                           ELSE metrics
             /\ alive' = (r.err # "PANIC")
             /\ ops_on' = IF r.err = "OK" THEN Targeted(ops_on, path, "read") ELSE ops_on
             /\ last' = Step("read", ino, path, <<>>, offset, size, <<>>, r.err, r.data,
                             NoAttr, <<>>)
  /\ UNCHANGED <<node_cache, workers, expect>>

\* GitFsOverlay::write with file_ops::write_file
Write(ino, offset, data) ==
  /\ Ready
  /\ nops' = nops + 1
  /\ IF ~IsSome(GetNode(node_cache, ino))
     THEN /\ last' = Step("write", ino, <<>>, <<>>, offset, 0, data, "ENOENT", <<>>,
                          NoAttr, <<>>)
          /\ UNCHANGED <<overlay, ops_on, expect>>
     ELSE LET path == node_cache.nodes[ino].path
              ov == WriteFile(overlay, path, offset, data)
          IN /\ overlay' = ov
             /\ ops_on' = Targeted(ops_on, path, "write")
             /\ expect' = MapInsert(expect, path,
                                    IF path \in DOMAIN expect
                                    THEN [content |-> Patch(expect[path].content, offset, data),
                                          count |-> expect[path].count + 1]
                                    ELSE [content |-> ov.cache[path], count |-> 1])
             /\ last' = Step("write", ino, path, <<>>, offset, Len(data), data, "OK",
                             <<>>, NoAttr, <<>>)
  /\ UNCHANGED <<node_cache, metrics, workers, alive>>


\* GitFsOverlay::create (kind "RegularFile", git_mode "Blob") and
\* GitFsOverlay::mkdir (kind "Directory", git_mode "Tree"): the two bodies
\* differ in the node they insert only
MakeEntry(op, kind, git_mode, parent, name) ==
  /\ Ready
  /\ nops' = nops + 1
  /\ IF ~IsSome(GetNode(node_cache, parent))
     THEN /\ last' = Step(op, parent, <<>>, <<>>, 0, 0, <<>>, "ENOENT", <<>>, NoAttr,
                          <<>>)
          /\ UNCHANGED <<node_cache, overlay, ops_on, expect>>
     ELSE LET path == Append(node_cache.nodes[parent].path, name)
              ino == AllocInoValue(node_cache, path)
              node == MkNode(ino, kind, 0, path, git_mode)
          IN /\ overlay' = LruInsert(overlay, path, <<>>)
             /\ node_cache' = InsertNode(AllocIno(node_cache, path), ino, node)
             /\ ops_on' = Targeted(ops_on, path, op)
             /\ expect' = Forget(expect, path)
             /\ last' = Step(op, parent, path, <<>>, 0, 0, <<>>, "OK", <<>>,
                             Some(NodeToAttr(node)), <<>>)
  /\ UNCHANGED <<metrics, workers, alive>>

Create(parent, name) == MakeEntry("create", "RegularFile", "Blob", parent, name)

Mkdir(parent, name) == MakeEntry("mkdir", "Directory", "Tree", parent, name)

\* GitFsOverlay::unlink
Unlink(parent, name) ==
  /\ Ready
  /\ nops' = nops + 1
  /\ IF ~IsSome(GetNode(node_cache, parent))
     THEN /\ last' = Step("unlink", parent, <<>>, <<>>, 0, 0, <<>>, "ENOENT", <<>>,
                          NoAttr, <<>>)
          /\ UNCHANGED <<node_cache, overlay, ops_on, expect>>
     ELSE LET path == Append(node_cache.nodes[parent].path, name)
          IN /\ overlay' = LruRemove(overlay, path)
             /\ node_cache' = RemoveNode(node_cache, path)
             /\ ops_on' = Targeted(ops_on, path, "unlink")
             /\ expect' = Forget(expect, path)
             /\ last' = Step("unlink", parent, path, <<>>, 0, 0, <<>>, "OK", <<>>,
                             NoAttr, <<>>)
  /\ UNCHANGED <<metrics, workers, alive>>

\* GitFsOverlay::rmdir
Rmdir(parent, name) ==
  /\ Ready
  /\ nops' = nops + 1
  /\ IF ~IsSome(GetNode(node_cache, parent))
     THEN /\ last' = Step("rmdir", parent, <<>>, <<>>, 0, 0, <<>>, "ENOENT", <<>>,
                          NoAttr, <<>>)
          /\ UNCHANGED <<node_cache, ops_on>>
     ELSE LET path == Append(node_cache.nodes[parent].path, name)
          IN /\ node_cache' = RemoveNode(node_cache, path)
             /\ ops_on' = Targeted(ops_on, path, "rmdir")
             /\ last' = Step("rmdir", parent, path, <<>>, 0, 0, <<>>, "OK", <<>>,
                             NoAttr, <<>>)
  /\ UNCHANGED <<overlay, metrics, workers, alive, expect>>

\* GitFsOverlay::rename
Rename(parent, name, newparent, newname) ==
  /\ Ready
  /\ nops' = nops + 1
  /\ IF ~IsSome(GetNode(node_cache, parent)) \/ ~IsSome(GetNode(node_cache, newparent))
     THEN /\ last' = Step("rename", parent, <<>>, <<>>, 0, 0, <<>>, "ENOENT", <<>>,
                          NoAttr, <<>>)
          /\ UNCHANGED <<node_cache, overlay, ops_on, expect>>
     ELSE LET old_path == Append(node_cache.nodes[parent].path, name)
              new_path == Append(node_cache.nodes[newparent].path, newname)
              moved == LruRemoveValue(overlay, old_path)
              removed == RemoveNodeValue(node_cache, old_path)
              nc1 == RemoveNode(node_cache, old_path)
          IN /\ overlay' = IF IsSome(moved)
                           THEN LruInsert(LruRemove(overlay, old_path), new_path,
                                          Unwrap(moved))
                           ELSE overlay
             /\ node_cache' =
                  IF IsSome(removed) /\ IsSome(GetNode(nc1, Unwrap(removed)))
                  THEN InsertNode(nc1, Unwrap(removed),
                                  [Unwrap(GetNode(nc1, Unwrap(removed)))
                                     EXCEPT !.path = new_path])
                  ELSE nc1
             /\ ops_on' = Targeted(Targeted(ops_on, old_path, "rename"), new_path, "rename")
             /\ expect' = Forget(Forget(expect, old_path), new_path)
             /\ last' = Step("rename", parent, old_path, new_path, 0, 0, <<>>, "OK",
                             <<>>, NoAttr, <<>>)
  /\ UNCHANGED <<metrics, workers, alive>>

\* GitFsOverlay::setattr with a size
Setattr(ino, size) ==
  /\ Ready
  /\ nops' = nops + 1
  /\ IF ~IsSome(GetNode(node_cache, ino))
     THEN /\ last' = Step("setattr", ino, <<>>, <<>>, 0, size, <<>>, "ENOENT", <<>>,
                          NoAttr, <<>>)
          /\ UNCHANGED <<overlay, ops_on, expect>>
     ELSE LET node == node_cache.nodes[ino]
              content == IF IsSome(LruGetValue(overlay, node.path))
                         THEN Unwrap(LruGetValue(overlay, node.path)) ELSE <<>>
          IN /\ overlay' = LruInsert(LruGet(overlay, node.path), node.path,
                                     Resize(content, size))
             /\ ops_on' = Targeted(ops_on, node.path, "setattr")
             /\ expect' = Forget(expect, node.path)
             /\ last' = Step("setattr", ino, node.path, <<>>, 0, size, <<>>, "OK", <<>>,
                             Some(NodeToAttr(node)), <<>>)
  /\ UNCHANGED <<node_cache, metrics, workers, alive>>

\* ----------------------------------------------------------- the workers
\* the slot of a worker after a step: the thread ends (metrics.log) when
\* nothing is left to visit
AfterStep(todo, pend, dir) ==
  IF todo = <<>> /\ ~IsSome(pend) THEN IdleWorker
  ELSE [st |-> "run", dir |-> dir, todo |-> todo, pend |-> pend]

\* prefetch_directory, one entry of the loop up to overlay.contains_key
PrefetchCheck(w) ==
  /\ alive
  /\ workers[w].st = "run"
  /\ ~IsSome(workers[w].pend)
  /\ workers[w].todo # <<>>
  /\ LET name == Head(workers[w].todo)
         file_path == Append(workers[w].dir, name)
     IN /\ workers' = [workers EXCEPT ![w] =
                         AfterStep(Tail(workers[w].todo),
                                   IF LruContains(overlay, file_path) THEN None
                                   ELSE Some(name),
                                   workers[w].dir)]
        /\ last' = Step("prefetch_check", 0, file_path, <<>>, 0, 0, <<>>, "OK", <<>>,
                        NoAttr, <<>>)
  /\ UNCHANGED <<node_cache, overlay, metrics, alive, nops, ops_on, expect>>

\* a worker that stores the blob cut to its first byte
PrefetchContentCut(file_path) == SubSeq(HeadEntries[file_path].content, 1, 1)

\* the content a worker read for the entry it is about to insert
PrefetchContent(file_path) == HeadEntries[file_path].content

\* prefetch_directory, the rest of the loop body: the counters and
\* overlay.insert
PrefetchInsert(w) ==
  /\ alive
  /\ workers[w].st = "run"
  /\ IsSome(workers[w].pend)
  /\ LET file_path == Append(workers[w].dir, Unwrap(workers[w].pend))
         content == PrefetchContent(file_path)
     IN /\ metrics' = [metrics EXCEPT !.prefetch_count = @ + 1,
                                      !.prefetch_bytes = @ + Len(content)]
        /\ overlay' = LruInsert(overlay, file_path, content)
        /\ workers' = [workers EXCEPT ![w] =
                         AfterStep(workers[w].todo, None, workers[w].dir)]
        /\ last' = Step("prefetch_insert", 0, file_path, <<>>, 0, 0, content, "OK",
                        <<>>, NoAttr, <<>>)
  /\ UNCHANGED <<node_cache, alive, nops, ops_on, expect>>

\* ------------------------------------------------------ the specification
Next ==
  \/ \E parent \in DirInos, name \in Names : Lookup(parent, name)
  \/ \E ino \in KnownInos : Getattr(ino)
  \/ \E ino \in DirInos, a \in ReaddirArgs : Readdir(ino, a[1], a[2])
  \/ \E ino \in FileInos \cup StaleInos, a \in ReadArgs : Read(ino, a[1], a[2])
  \/ \E ino \in FileInos \cup StaleInos, a \in WriteArgs : Write(ino, a[1], a[2])
  \/ \E parent \in DirInos, name \in Names :
       ~Resolves(ChildPath(parent, name)) /\ Create(parent, name)
  \/ \E parent \in DirInos, name \in Names :
       ~Resolves(ChildPath(parent, name)) /\ Mkdir(parent, name)
  \/ \E parent \in DirInos, name \in Names :
       HasNode(ChildPath(parent, name), {"RegularFile"}) /\ Unlink(parent, name)
  \/ \E parent \in DirInos, name \in Names :
       HasNode(ChildPath(parent, name), {"Directory"}) /\ Rmdir(parent, name)
  \/ \E parent \in DirInos, name \in Names, newparent \in DirInos, newname \in Names :
       /\ HasNode(ChildPath(parent, name), {"RegularFile", "Directory"})
       /\ ChildPath(parent, name) # ChildPath(newparent, newname)
       /\ Rename(parent, name, newparent, newname)
  \/ \E ino \in FileInos \cup StaleInos, size \in SetSizes : Setattr(ino, size)
  \/ \E w \in DOMAIN workers : PrefetchCheck(w)
  \/ \E w \in DOMAIN workers : PrefetchInsert(w)

Spec == Init /\ [][Next]_vars

\* The callbacks that read, write, create, rename and remove files, with the
\* workers: the specification of the claims about file content.
NextFile ==
  \/ \E parent \in DirInos, name \in Names : Lookup(parent, name)
  \/ \E ino \in DirInos : Readdir(ino, 0, MaxRoom)
  \/ \E ino \in FileInos \cup StaleInos, a \in FullReadArgs : Read(ino, a[1], a[2])
  \/ \E ino \in FileInos \cup StaleInos, a \in WriteArgs : Write(ino, a[1], a[2])
  \/ \E parent \in DirInos, name \in Names :
       ~Resolves(ChildPath(parent, name)) /\ Create(parent, name)
  \/ \E parent \in DirInos, name \in Names :
       HasNode(ChildPath(parent, name), {"RegularFile"}) /\ Unlink(parent, name)
  \/ \E parent \in DirInos, name \in Names, newname \in Names :
       /\ HasNode(ChildPath(parent, name), {"RegularFile"})
       /\ name # newname
       /\ Rename(parent, name, parent, newname)
  \/ \E ino \in FileInos \cup StaleInos, size \in SetSizes : Setattr(ino, size)
  \/ \E w \in DOMAIN workers : PrefetchCheck(w)
  \/ \E w \in DOMAIN workers : PrefetchInsert(w)

SpecFile == Init /\ [][NextFile]_vars


\* The callbacks that read and write files at every offset, with the
\* workers: the specification of the claim about the read counters.
NextRead ==
  \/ \E parent \in DirInos, name \in Names : Lookup(parent, name)
  \/ \E ino \in DirInos : Readdir(ino, 0, MaxRoom)
  \/ \E ino \in FileInos \cup StaleInos, a \in ReadArgs : Read(ino, a[1], a[2])
  \/ \E ino \in FileInos \cup StaleInos, a \in WriteArgs : Write(ino, a[1], a[2])
  \/ \E w \in DOMAIN workers : PrefetchCheck(w)
  \/ \E w \in DOMAIN workers : PrefetchInsert(w)

SpecRead == Init /\ [][NextRead]_vars

\* write_file on its own: the paths of the node it is called for, in HEAD,
\* beside HEAD and under a directory HEAD does not have
SeedPaths == {<<"a">>, <<"d", "a">>, <<"d", "x">>, <<"x">>, <<"x", "a">>}

\* file_ops::write_file for a node get_node finds at path
WriteFileCall(path, offset, data) ==
  /\ Ready
  /\ nops' = nops + 1
  /\ overlay' = WriteFile(overlay, path, offset, data)
  /\ last' = Step("write", 0, path, <<>>, offset, Len(data), data, "OK", <<>>,
                  NoAttr, <<>>)
  /\ UNCHANGED <<node_cache, metrics, workers, alive, ops_on, expect>>

NextSeed ==
  \E path \in SeedPaths, a \in WriteArgs : WriteFileCall(path, a[1], a[2])

SpecSeed == Init /\ [][NextSeed]_vars

\* The callbacks that fill and list directories, readdir at every offset up
\* to past the end of the list and with replies of one entry, two entries and
\* a whole buffer, with the workers: the specification of the claim about
\* readdir cookies.
ResumeOffsets == 0..(MaxRoom + 2)

Rooms == {1, 2, MaxRoom}

NextCookie ==
  \/ \E ino \in DirInos, offset \in ResumeOffsets, room \in Rooms :
       Readdir(ino, offset, room)
  \/ \E parent \in DirInos, name \in Names :
       ~Resolves(ChildPath(parent, name)) /\ Create(parent, name)
  \/ \E parent \in DirInos, name \in Names :
       ~Resolves(ChildPath(parent, name)) /\ Mkdir(parent, name)
  \/ \E w \in DOMAIN workers : PrefetchCheck(w)
  \/ \E w \in DOMAIN workers : PrefetchInsert(w)

SpecCookie == Init /\ [][NextCookie]_vars

\* The callbacks that change the node cache, with the workers: the
\* specification of the claims about inodes and paths.
NextNode ==
  \/ \E parent \in DirInos, name \in Names : Lookup(parent, name)
  \/ \E ino \in DirInos : Readdir(ino, 0, MaxRoom)
  \/ \E parent \in DirInos, name \in Names :
       ~Resolves(ChildPath(parent, name)) /\ Create(parent, name)
  \/ \E parent \in DirInos, name \in Names :
       ~Resolves(ChildPath(parent, name)) /\ Mkdir(parent, name)
  \/ \E parent \in DirInos, name \in Names :
       HasNode(ChildPath(parent, name), {"RegularFile"}) /\ Unlink(parent, name)
  \/ \E parent \in DirInos, name \in Names :
       HasNode(ChildPath(parent, name), {"Directory"}) /\ Rmdir(parent, name)
  \/ \E parent \in DirInos, name \in Names, newname \in Names :
       /\ HasNode(ChildPath(parent, name), {"RegularFile", "Directory"})
       /\ name # newname
       /\ Rename(parent, name, parent, newname)
  \/ \E w \in DOMAIN workers : PrefetchCheck(w)
  \/ \E w \in DOMAIN workers : PrefetchInsert(w)

SpecNode == Init /\ [][NextNode]_vars

\* The callbacks that decide how a path resolves (through the path index,
\* the overlay or HEAD), with the workers: the specification of the claim
\* about lookup_path.
NextLookup ==
  \/ \E parent \in DirInos, name \in Names : Lookup(parent, name)
  \/ \E parent \in DirInos, name \in Names :
       ~Resolves(ChildPath(parent, name)) /\ Create(parent, name)
  \/ \E parent \in DirInos, name \in Names :
       ~Resolves(ChildPath(parent, name)) /\ Mkdir(parent, name)
  \/ \E parent \in DirInos, name \in Names :
       HasNode(ChildPath(parent, name), {"RegularFile"}) /\ Unlink(parent, name)
  \/ \E parent \in DirInos, name \in Names, newname \in Names :
       /\ HasNode(ChildPath(parent, name), {"RegularFile"})
       /\ name # newname
       /\ Rename(parent, name, parent, newname)
  \/ \E w \in DOMAIN workers : PrefetchCheck(w)
  \/ \E w \in DOMAIN workers : PrefetchInsert(w)

SpecLookup == Init /\ [][NextLookup]_vars

\* The callbacks that make and list directories, with the workers, on a mount
\* made by with_cache_limits with room for one entry or by new: the
\* specification of the claim about mkdir, create and readdir.
DirLimits == {<<3, 1>>, <<DEFAULT_MAX_CACHE_BYTES, DEFAULT_MAX_CACHE_ENTRIES>>}

InitDir ==
  /\ node_cache = NodeCacheNew
  /\ \E lim \in DirLimits : overlay = LruNew(lim[1], lim[2])
  /\ metrics = [prefetch_count |-> 0, prefetch_bytes |-> 0,
                on_demand_count |-> 0, on_demand_bytes |-> 0]
  /\ workers = [w \in 1..MaxWorkers |-> IdleWorker]
  /\ alive = TRUE
  /\ nops = 0
  /\ last = Step("init", 0, <<>>, <<>>, 0, 0, <<>>, "OK", <<>>, NoAttr, <<>>)
  /\ ops_on = <<>>
  /\ expect = <<>>

NextDir ==
  \/ \E parent \in DirInos, name \in Names : Lookup(parent, name)
  \/ \E ino \in DirInos, a \in ReaddirArgs : Readdir(ino, a[1], a[2])
  \/ \E parent \in DirInos, name \in Names :
       ~Resolves(ChildPath(parent, name)) /\ Create(parent, name)
  \/ \E parent \in DirInos, name \in Names :
       ~Resolves(ChildPath(parent, name)) /\ Mkdir(parent, name)
  \/ \E parent \in DirInos, name \in Names :
       HasNode(ChildPath(parent, name), {"Directory"}) /\ Rmdir(parent, name)
  \/ \E w \in DOMAIN workers : PrefetchCheck(w)
  \/ \E w \in DOMAIN workers : PrefetchInsert(w)

SpecDir == InitDir /\ [][NextDir]_vars

\* ------------------------------------------------- the LruCache on its own
\* The public operations of LruCache called directly, in any order, on a
\* cache made by LruCache::new with small limits.  The cache is the variable
\* overlay; last records the operation and its arguments, in path2 the key
\* given to the latest insert and, for an insert, in size the number of
\* entries it evicted.

\* (max_size, max_entries) given to LruCache::new
LruLimits == {<<3, 2>>, <<1, 3>>, <<3, 0>>,
              <<DEFAULT_MAX_CACHE_BYTES, DEFAULT_MAX_CACHE_ENTRIES>>}

\* the keys and the values the callers use
LruKeys == {<<n>> : n \in Names}
LruValues == {<<>>, <<7>>, <<8, 9>>}

InitLru ==
  /\ node_cache = NodeCacheNew
  /\ \E lim \in LruLimits : overlay = LruNew(lim[1], lim[2])
  /\ metrics = [prefetch_count |-> 0, prefetch_bytes |-> 0,
                on_demand_count |-> 0, on_demand_bytes |-> 0]
  /\ workers = [w \in 1..MaxWorkers |-> IdleWorker]
  /\ alive = TRUE
  /\ nops = 0
  /\ last = Step("new", 0, <<>>, <<>>, 0, 0, <<>>, "OK", <<>>, NoAttr, <<>>)
  /\ ops_on = <<>>
  /\ expect = <<>>

\* LruCache::get
CacheGet(path) ==
  /\ overlay' = LruGet(overlay, path)
  /\ last' = Step("get", 0, path, last.path2, 0, 0, <<>>,
                  IF IsSome(LruGetValue(overlay, path)) THEN "OK" ELSE "ENOENT",
                  IF IsSome(LruGetValue(overlay, path))
                  THEN Unwrap(LruGetValue(overlay, path)) ELSE <<>>,
                  NoAttr, <<>>)
  /\ UNCHANGED <<node_cache, metrics, workers, alive, nops, ops_on, expect>>

\* LruCache::insert
CacheInsert(path, data) ==
  /\ overlay' = LruInsert(overlay, path, data)
  /\ last' = Step("insert", 0, path, path, 0,
                  Cardinality(DOMAIN LruDropOld(overlay, path).cache \ DOMAIN overlay'.cache),
                  data, "OK", <<>>, NoAttr, <<>>)
  /\ UNCHANGED <<node_cache, metrics, workers, alive, nops, ops_on, expect>>

\* LruCache::remove
CacheRemove(path) ==
  /\ overlay' = LruRemove(overlay, path)
  /\ last' = Step("remove", 0, path, last.path2, 0, 0, <<>>,
                  IF IsSome(LruRemoveValue(overlay, path)) THEN "OK" ELSE "ENOENT",
                  IF IsSome(LruRemoveValue(overlay, path))
                  THEN Unwrap(LruRemoveValue(overlay, path)) ELSE <<>>,
                  NoAttr, <<>>)
  /\ UNCHANGED <<node_cache, metrics, workers, alive, nops, ops_on, expect>>

\* LruCache::clear
CacheClear ==
  /\ overlay' = LruClear(overlay)
  /\ last' = Step("clear", 0, <<>>, last.path2, 0, 0, <<>>, "OK", <<>>, NoAttr, <<>>)
  /\ UNCHANGED <<node_cache, metrics, workers, alive, nops, ops_on, expect>>

NextLru ==
  \/ \E path \in LruKeys : CacheGet(path)
  \/ \E path \in LruKeys, data \in LruValues : CacheInsert(path, data)
  \/ \E path \in LruKeys : CacheRemove(path)
  \/ CacheClear

SpecLru == InitLru /\ [][NextLru]_vars

\* ------------------------------------------------------------------ claims

\* what the read callback replies for (ino, offset, size) in this state
ReadOf(ino, offset, size) ==
  IF ~IsSome(GetNode(node_cache, ino)) THEN Reply("ENOENT", <<>>)
  ELSE ReadFileReply(overlay, node_cache.nodes[ino].path, offset, size)

\* the last step was a write callback that replied its byte count
Wrote == last.op = "write" /\ last.err = "OK"

\* path names a blob of HEAD
IsHeadBlob(path) == path \in DOMAIN HeadEntries /\ HeadEntries[path].kind = "Blob"

\* c cut or padded with zeros to s bytes
TruncPad(c, s) == [i \in 1..s |-> IF i <= Len(c) THEN c[i] ELSE 0]

\* n zero bytes
Zeros(n) == [i \in 1..n |-> 0]

\* C1: right after write(p, 0, b), read(p, 0, |b|) returns b.
C1_WriteReadRoundTrip ==
  (Wrote /\ last.offset = 0)
    => ReadOf(last.ino, 0, Len(last.data)) = Reply("OK", last.data)

C1_Witness ==
  /\ Wrote /\ last.offset = 0 /\ Len(last.data) = 2
  /\ overlay.max_size = 3

\* C2: the first write to a HEAD file, at offset 0 and shorter than the blob
\* c, leaves a full read returning b followed by the rest of c.
C2_CopyOnWrite ==
  (/\ Wrote /\ last.offset = 0 /\ ~last.held
   /\ IsHeadBlob(last.path)
   /\ Len(last.data) < Len(HeadEntries[last.path].content))
    => LET c == HeadEntries[last.path].content
       IN ReadOf(last.ino, 0, FullRead)
            = Reply("OK", last.data \o SubSeq(c, Len(last.data) + 1, Len(c)))

C2_Witness ==
  /\ Wrote /\ last.offset = 0 /\ ~last.held
  /\ last.path = <<"a">> /\ last.data = <<7>>

\* C3: a write that starts past the end of a file whose content was c leaves a
\* full read returning c, then zeros up to the offset, then b.
C3_WritePastEndKeepsContent ==
  (Wrote /\ last.before.err = "OK" /\ last.offset > Len(last.before.data))
    => ReadOf(last.ino, 0, FullRead)
         = Reply("OK", last.before.data
                         \o Zeros(last.offset - Len(last.before.data))
                         \o last.data)

\* C4: once a read of a HEAD file has completed, a write at any offset is
\* applied on top of the blob: a full read returns the blob with only the
\* written range replaced.
C4_WriteAfterReadSeesBaseline ==
  (/\ Wrote /\ IsHeadBlob(last.path)
   /\ last.path \in DOMAIN ops_on /\ "read" \in ops_on[last.path]
   /\ last.before = Reply("OK", HeadEntries[last.path].content))
    => ReadOf(last.ino, 0, FullRead)
         = Reply("OK", Patch(HeadEntries[last.path].content, last.offset, last.data))

\* C5: after rename(old, new) of a readable file, new resolves and reads as
\* old did, and old resolves no more.
C5_RenameRoundTrip ==
  (/\ last.op = "rename" /\ last.err = "OK"
   /\ last.kind = "RegularFile" /\ last.before.err = "OK")
    => LET new == LookupPath(node_cache, overlay, last.path2)
           old == LookupPath(node_cache, overlay, last.path)
       IN /\ IsSome(new.node)
          /\ ReadFileReply(new.ov, last.path2, 0, FullRead) = last.before
          /\ ~IsSome(old.node)

\* C6: after setattr(p, size = s) of a file whose content was c, a full read
\* returns s bytes: c cut to min(s, |c|), then zeros.
C6_TruncateKeepsContent ==
  (last.op = "setattr" /\ last.err = "OK" /\ last.before.err = "OK")
    => ReadOf(last.ino, 0, FullRead) = Reply("OK", TruncPad(last.before.data, last.size))

\* C7: the attributes setattr(p, size = s) replies, and those getattr reports
\* afterwards, carry size s.
C7_SetattrSize ==
  (last.op = "setattr" /\ last.err = "OK")
    => /\ Unwrap(last.attr).size = last.size
       /\ NodeToAttr(node_cache.nodes[last.ino]).size = last.size

\* C8: the size recorded in the node of a file the overlay holds is the
\* length of the overlay's bytes.
C8_NodeSizeTracksOverlay ==
  \A i \in DOMAIN node_cache.nodes :
    LET node == node_cache.nodes[i]
    IN (node.kind = "RegularFile" /\ LruContains(overlay, node.path))
         => node.size = Len(overlay.cache[node.path])

\* path has been the target of none of write, create, setattr, rename, unlink
Untouched(path) ==
  path \in DOMAIN ops_on
    => ops_on[path] \cap {"write", "create", "setattr", "rename", "unlink"} = {}

\* C9: a full read of a HEAD file that has never been the target of write,
\* create, setattr, rename or unlink returns the HEAD blob, whether the read
\* or a prefetch worker got to the file first.
C9_PrefetchReadRace ==
  (/\ last.op = "read" /\ IsHeadBlob(last.path) /\ Untouched(last.path)
   /\ last.offset = 0 /\ last.size >= Len(HeadEntries[last.path].content))
    => /\ last.err = "OK"
       /\ last.out = HeadEntries[last.path].content

C9_Witness ==
  /\ last.op = "read" /\ last.path = <<"a">> /\ Untouched(<<"a">>)
  /\ last.offset = 0 /\ last.size = FullRead
  /\ last.held /\ metrics.prefetch_count > 0

\* C10: after a second write by the one caller to a path, a full read returns
\* the content the first write left with the later writes applied in order,
\* whatever the workers did in between.
C10_WriteOrdering ==
  (Wrote /\ last.path \in DOMAIN expect /\ expect[last.path].count >= 2)
    => ReadOf(last.ino, 0, FullRead) = Reply("OK", expect[last.path].content)

\* the bytes the map holds: the sum of the lengths of its values
RECURSIVE SeqBytes(_, _)
SeqBytes(cache, keys) ==
  IF keys = <<>> THEN 0 ELSE Len(cache[Head(keys)]) + SeqBytes(cache, Tail(keys))

RECURSIVE SetBytes(_, _)
SetBytes(cache, keys) ==
  IF keys = {} THEN 0
  ELSE LET k == CHOOSE k \in keys : TRUE
       IN Len(cache[k]) + SetBytes(cache, keys \ {k})

BytesHeld(l) == SetBytes(l.cache, DOMAIN l.cache)

\* the elements of a sequence
Range(q) == {q[i] : i \in DOMAIN q}

\* C11: after every operation of the cache, for every pair of limits, the
\* number of entries is at most max_entries, and the bytes held are at most
\* max_size unless the cache holds one entry only, the one inserted last.
C11_LruBounds ==
  /\ Cardinality(DOMAIN overlay.cache) <= overlay.max_entries
  /\ \/ BytesHeld(overlay) <= overlay.max_size
     \/ DOMAIN overlay.cache = {last.path2}

\* C12: an insert evicts from the least-recently-touched end only and stops
\* as soon as the new value fits: what stays is the new key in front of the
\* longest prefix of the previous order that fits beside it, with the values
\* unchanged.  A get that hits moves its key to the front.
C12_EvictionOrder ==
  [][/\ last'.op = "insert" =>
          LET k == last'.path
              v == last'.data
              O == SelectSeq(overlay.access_order, LAMBDA q : q # k)
              kept == Tail(overlay'.access_order)
              j == Len(kept)
              Fits(n) == /\ SeqBytes(overlay.cache, SubSeq(O, 1, n)) + Len(v)
                              <= overlay.max_size
                         /\ n < overlay.max_entries
          IN /\ overlay'.access_order = <<k>> \o SubSeq(O, 1, j)
             /\ DOMAIN overlay'.cache = Range(overlay'.access_order)
             /\ overlay'.cache[k] = v
             /\ \A i \in 1..j : overlay'.cache[kept[i]] = overlay.cache[kept[i]]
             /\ j = Len(O) \/ ~Fits(j + 1)
     /\ (last'.op = "get" /\ last'.err = "OK") =>
          overlay'.access_order
            = <<last'.path>> \o SelectSeq(overlay.access_order, LAMBDA q : q # last'.path)
    ]_vars

C12_Witness ==
  /\ last.op = "insert" /\ last.size = 1
  /\ Len(overlay.access_order) = 2
  /\ overlay.max_entries = 2

\* C13: in every state the current_size counter is the sum of the lengths of
\* the values in the map, and it is never negative.
C13_ByteAccounting ==
  /\ overlay.current_size = BytesHeld(overlay)
  /\ overlay.current_size >= 0

C13_Witness ==
  /\ last.op = "remove" /\ last.err = "OK" /\ Len(last.out) = 2
  /\ overlay.current_size = 1

\* C14: in every state the keys of the map are the paths of access_order, and
\* no path occurs in access_order twice.
C14_MapOrderAgree ==
  /\ DOMAIN overlay.cache = Range(overlay.access_order)
  /\ Cardinality(Range(overlay.access_order)) = Len(overlay.access_order)

C14_Witness ==
  /\ last.op = "get" /\ last.err = "OK"
  /\ Len(overlay.access_order) = 3
  /\ overlay.access_order[1] = last.path

\* C15: the inode alloc_ino returned for a path is the one every later
\* alloc_ino for that path returns, whatever callbacks come in between.
C15_StableIno ==
  [][\A p \in DOMAIN node_cache.ino_cache :
       AllocInoValue(node_cache', p) = node_cache.ino_cache[p]]_vars

C15_Witness ==
  /\ last.op = "create" /\ last.err = "OK"
  /\ "unlink" \in ops_on[last.path]
  /\ Unwrap(last.attr).ino = node_cache.ino_cache[last.path]

\* the (inode, path) pairs the node cache holds in nodes, in the path index
\* and in the allocation cache
InoPaths(nc) ==
  {<<i, nc.nodes[i].path>> : i \in DOMAIN nc.nodes}
    \cup {<<nc.path_to_ino[p], p>> : p \in DOMAIN nc.path_to_ino}
    \cup {<<nc.ino_cache[p], p>> : p \in DOMAIN nc.ino_cache}

UniqueInos(nc) ==
  /\ \A x, y \in InoPaths(nc) : x[1] = y[1] => x[2] = y[2]
  /\ \A p \in DOMAIN nc.ino_cache : nc.ino_cache[p] # ROOT_INO

\* C16: no inode number goes with two different paths, in nodes, in the path
\* index or in the allocation cache; no allocated inode is the root's; and
\* next_ino never decreases.
C16_InoUnique ==
  /\ UniqueInos(node_cache)
  /\ [][UniqueInos(node_cache') /\ node_cache'.next_ino >= node_cache.next_ino]_vars

C16_Witness ==
  /\ last.op = "rename" /\ last.err = "OK"
  /\ node_cache.next_ino >= ROOT_INO + 3

\* C17: every inode i of nodes has nodes[i].ino = i and the path index maps
\* the node's path to i.
C17_Bimap ==
  \A i \in DOMAIN node_cache.nodes :
    LET node == node_cache.nodes[i]
    IN /\ node.ino = i
       /\ node.path \in DOMAIN node_cache.path_to_ino
       /\ node_cache.path_to_ino[node.path] = i

C17_Witness ==
  /\ last.op = "readdir" /\ last.err = "OK"
  /\ \E i \in DOMAIN node_cache.nodes :
       /\ node_cache.nodes[i].git_mode = "None"
       /\ node_cache.nodes[i].path \in DOMAIN ops_on
       /\ ops_on[node_cache.nodes[i].path] = {"rename"}

\* C18: inode 1 is in nodes with the empty path and kind Directory, and the
\* path index maps the empty path to 1.
C18_RootImmortal ==
  /\ ROOT_INO \in DOMAIN node_cache.nodes
  /\ node_cache.nodes[ROOT_INO].path = <<>>
  /\ node_cache.nodes[ROOT_INO].kind = "Directory"
  /\ <<>> \in DOMAIN node_cache.path_to_ino
  /\ node_cache.path_to_ino[<<>>] = ROOT_INO

C18_Witness ==
  /\ last.op = "rmdir" /\ last.err = "OK" /\ last.ino = ROOT_INO
  /\ last.kind = "Directory"

\* the paths lookup_path is asked about: one or two names
LookupPaths ==
  {<<n>> : n \in Names} \cup {<<n, m>> : n \in Names, m \in Names}

\* C19: lookup_path called twice in a row for the same path returns the same
\* result: None both times, or nodes equal in ino, kind, size, path, git_mode;
\* for a path in the path index, in the overlay, in HEAD or nowhere.
C19_LookupIdempotent ==
  \A p \in LookupPaths :
    LET first == LookupPath(node_cache, overlay, p)
    IN LookupPath(first.nc, first.ov, p).node = first.node

C19_Witness ==
  /\ \E p \in LookupPaths :
       /\ p \notin DOMAIN node_cache.path_to_ino
       /\ LruContains(overlay, p)
  /\ \E p \in LookupPaths :
       /\ p \notin DOMAIN node_cache.path_to_ino
       /\ ~LruContains(overlay, p)
       /\ IsSome(LookupPath(node_cache, overlay, p).node)
  /\ \E p \in LookupPaths :
       /\ p \in DOMAIN node_cache.path_to_ino
       /\ IsSome(LookupPath(node_cache, overlay, p).node)

\* the directory mkdir made at path D, a name HEAD does not have, and that no
\* other callback has targeted
MadeDir(D) ==
  D \in DOMAIN ops_on /\ ops_on[D] = {"mkdir"} /\ D \notin DOMAIN HeadEntries

\* the paths directly under D that callbacks have targeted, and those among
\* them that create made and nothing else has targeted
TouchedIn(D) == {F \in DOMAIN ops_on : HasParent(F) /\ Parent(F) = D}
CreatedIn(D) == {F \in TouchedIn(D) : ops_on[F] = {"create"}}

\* the (kind, name) pairs of a directory listing
Listing(entries) == {<<entries[i][2], entries[i][3]>> : i \in 1..Len(entries)}

\* C20: after mkdir(P, d) for a name d not in HEAD and create(P/d, f), a
\* readdir of P/d from offset 0 enumerates exactly ".", ".." and the created
\* files as regular files, and a readdir of P lists d as a directory.
C20_MkdirCreateVisible ==
  (last.op = "readdir" /\ last.err = "OK" /\ last.offset = 0) =>
    /\ (/\ MadeDir(last.path)
        /\ CreatedIn(last.path) # {}
        /\ TouchedIn(last.path) = CreatedIn(last.path))
         => /\ Listing(last.entries)
                 = {<<"Directory", ".">>, <<"Directory", "..">>}
                     \cup {<<"RegularFile", FileName(F)>> : F \in CreatedIn(last.path)}
            /\ Len(last.entries) = 2 + Cardinality(CreatedIn(last.path))
    /\ \A D \in DOMAIN ops_on :
         (MadeDir(D) /\ Parent(D) = last.path /\ CreatedIn(D) # {})
           => <<"Directory", FileName(D)>> \in Listing(last.entries)

\* the names of a listing, in order
EntryNames(entries) == [i \in 1..Len(entries) |-> entries[i][3]]

\* the names of the children HEAD gives the directory dir, in tree order
HeadChildren(dir) == IF DirValid(dir) THEN TreeIter(dir) ELSE <<>>

\* C21: the entries readdir builds name nothing twice; they are ".", "..",
\* the children of the HEAD tree in tree order, then names HEAD does not have.
C21_ReaddirNoDuplicates ==
  (last.op = "readdir" /\ last.err = "OK") =>
    LET names == EntryNames(last.entries)
        head == HeadChildren(last.path)
    IN /\ \A i, j \in 1..Len(names) : names[i] = names[j] => i = j
       /\ Len(names) >= 2 + Len(head)
       /\ SubSeq(names, 1, 2 + Len(head)) = <<".", "..">> \o head
       /\ \A i \in (3 + Len(head))..Len(names) :
            /\ names[i] \notin Range(head)
            /\ Append(last.path, names[i]) \in DOMAIN overlay.cache

C21_Witness ==
  /\ last.op = "readdir" /\ last.err = "OK" /\ last.path = <<>>
  /\ <<"a">> \in DOMAIN ops_on /\ "write" \in ops_on[<<"a">>]
  /\ LruContains(overlay, <<"a">>)
  /\ Len(last.entries) = 4

\* C22: a read of a file whose content is c, at any offset and size, replies
\* OK with the bytes of c from min(offset, |c|) up to min(offset + size, |c|),
\* and the handler survives it.
C22_ReadPastEndTruncated ==
  (last.op = "read" /\ last.before.err = "OK") =>
    LET c == last.before.data
    IN /\ alive
       /\ last.err = "OK"
       /\ last.out = SubSeq(c, Min(last.offset, Len(c)) + 1,
                            Min(last.offset + last.size, Len(c)))

\* the step is a read callback
ReadStep == nops' = nops + 1 /\ last'.op = "read"

\* the read served the blob of HEAD at its path, the overlay not holding it
FromStore == last'.err = "OK" /\ ~last'.held /\ IsHeadBlob(last'.path)

\* C23: a read adds 1 to on_demand_count and the blob's length to
\* on_demand_bytes exactly when it served a HEAD blob from the object store
\* with offset 0 and size at least the blob's length; every other read leaves
\* the four counters as they were; no step lowers a counter.
C23_OnDemandAccounting ==
  [][/\ metrics'.on_demand_count >= metrics.on_demand_count
     /\ metrics'.on_demand_bytes >= metrics.on_demand_bytes
     /\ metrics'.prefetch_count >= metrics.prefetch_count
     /\ metrics'.prefetch_bytes >= metrics.prefetch_bytes
     /\ ReadStep =>
          IF /\ FromStore /\ last'.offset = 0
             /\ last'.size >= Len(HeadEntries[last'.path].content)
          THEN metrics' = [metrics EXCEPT
                             !.on_demand_count = @ + 1,
                             !.on_demand_bytes = @ + Len(HeadEntries[last'.path].content)]
          ELSE metrics' = metrics]_vars

C23_Witness ==
  /\ last.op = "read" /\ last.err = "OK" /\ ~last.held
  /\ last.path = <<"a">> /\ last.offset = 0 /\ last.size = FullRead
  /\ metrics.on_demand_count = 1 /\ metrics.on_demand_bytes = 2

\* write, create or setattr has stored content for path
UserStored(path) ==
  path \in DOMAIN ops_on /\ ops_on[path] \cap {"write", "create", "setattr"} # {}

\* C24: the insert of a prefetch worker for a path the overlay holds, after
\* write, create or setattr stored content for it, leaves the content the
\* overlay held.
C24_PrefetchKeepsUserData ==
  (last.op = "prefetch_insert" /\ last.held /\ UserStored(last.path))
    => Readable(overlay, last.path) = last.before

\* C25: the step after write(p, 0, b), when it targets other paths only,
\* leaves read(p, 0, |b|) returning b.
C25_WriteSurvivesOtherPaths ==
  [][(/\ Wrote /\ last.offset = 0
      /\ last'.path # last.path /\ last'.path2 # last.path
      /\ ReadFileReply(overlay, last.path, 0, Len(last.data)) = Reply("OK", last.data))
       => ReadFileReply(overlay', last.path, 0, Len(last.data))
            = Reply("OK", last.data)]_vars

\* a readdir of the directory ino, taken in this state, lists name
Listed(ino, name) ==
  /\ ino \in DOMAIN node_cache.nodes
  /\ \E order \in Orders(OverlayChildren(overlay, node_cache.nodes[ino].path)) :
       name \in Range(EntryNames(
                  ReadDirectory(node_cache, overlay, node_cache.nodes[ino], order).entries))

\* C26: after unlink(P, n) has replied OK, a lookup of P/n finds nothing and
\* a readdir of P does not list n.
C26_UnlinkEffective ==
  (last.op = "unlink" /\ last.err = "OK")
    => /\ ~Resolves(last.path)
       /\ ~Listed(last.ino, FileName(last.path))

\* C27: after mkdir(P, d) for a name d not in HEAD and rmdir(P, d), a lookup
\* of P/d finds nothing, as a regular file least of all, and a readdir of P
\* does not list d.
C27_RmdirRemoves ==
  (/\ last.op = "rmdir" /\ last.err = "OK"
   /\ last.path \notin DOMAIN HeadEntries /\ "mkdir" \in ops_on[last.path])
    => /\ ~Resolves(last.path)
       /\ ~Listed(last.ino, FileName(last.path))

\* a proper prefix of path names a blob of HEAD
BelowBlob(path) == \E k \in 1..(Len(path) - 1) : IsHeadBlob(SubSeq(path, 1, k))

\* C28: the node lookup_path returns for a path has that path, and a path
\* below a blob of HEAD gets no node.
C28_LookupPathAnswersPath ==
  \A p \in LookupPaths :
    LET r == LookupPath(node_cache, overlay, p).node
    IN /\ IsSome(r) => Unwrap(r).path = p
       /\ BelowBlob(p) => ~IsSome(r)

\* C29: a write at offset 0 to a path the overlay does not hold leaves the
\* written bytes over the HEAD blob at exactly that path, or over nothing
\* when HEAD has no blob there.
C29_SeedFromWrittenPath ==
  (Wrote /\ last.offset = 0 /\ ~last.held)
    => overlay.cache[last.path]
         = Patch(IF IsHeadBlob(last.path) THEN HeadEntries[last.path].content ELSE <<>>,
                 0, last.data)

\* C30: a directory mkdir made under a name HEAD does not have, and that no
\* other callback has targeted since, resolves through lookup_path as a
\* directory; a readdir of its parent lists it as a directory and under no
\* other kind, the listing coming from the directory's marker in the overlay.
C30_MkdirKeepsKind ==
  \A D \in DOMAIN ops_on :
    MadeDir(D) =>
      /\ LET r == LookupPath(node_cache, overlay, D).node
         IN IsSome(r) /\ Unwrap(r).kind = "Directory"
      /\ (last.op = "readdir" /\ last.err = "OK" /\ last.path = Parent(D)) =>
           /\ \A i \in 1..Len(last.entries) :
                last.entries[i][3] = FileName(D) => last.entries[i][2] = "Directory"
           /\ LruContains(overlay, D)
                => <<"Directory", FileName(D)>> \in Listing(last.entries)

C30_Witness ==
  /\ last.op = "readdir" /\ last.err = "OK"
  /\ \E D \in DOMAIN ops_on :
       /\ MadeDir(D) /\ Parent(D) = last.path
       /\ <<"Directory", FileName(D)>> \in Listing(last.entries)

\* what a caller collects from the list entries by calling with offset, then
\* again with the last cookie it received, until a reply comes back empty
RECURSIVE Resume(_, _, _)
Resume(entries, offset, room) ==
  LET out == Emit(entries, offset, room)
  IN IF out = <<>> THEN <<>>
     ELSE out \o Resume(entries, out[Len(out)][2], room)

\* C31: readdir(offset = k) on a list of n entries replies the entries at
\* positions k+1..n, each with its 1-based position as cookie, cut only by
\* the room of the reply buffer; k >= n replies OK and empty; resuming from
\* the last cookie received until the reply is empty collects every entry of
\* the list once, in order.
C31_ReaddirCookies ==
  (last.op = "readdir" /\ last.err = "OK") =>
    LET n == Len(last.entries)
        k == last.offset
        room == last.size
        rest == IF n > k THEN n - k ELSE 0
    IN /\ Len(last.out) = Min(room, rest)
       /\ \A j \in 1..Len(last.out) :
            last.out[j] = <<last.entries[k + j][1], k + j,
                            last.entries[k + j][2], last.entries[k + j][3]>>
       /\ k >= n => last.out = <<>>
       /\ LET all == Resume(last.entries, 0, room)
          IN /\ Len(all) = n
             /\ \A i \in 1..n :
                  all[i] = <<last.entries[i][1], i, last.entries[i][2], last.entries[i][3]>>

C31_Witness ==
  /\ last.op = "readdir" /\ last.err = "OK"
  /\ last.offset = 2 /\ last.size = 2 /\ Len(last.entries) = 5
  /\ Len(last.out) = 2 /\ last.out[2][2] = 4

====
